---- MODULE Spec2Model ----
(***************************************************************************)
(* A model of inferno's current-based synapses (DeltaCurrent,              *)
(* DeltaPlusCurrent) and of the linear connections (DenseLinear,           *)
(* DirectLinear, LateralLinear) that step them and read them by delay      *)
(* (Spec, ReadSpec), also two of them side by side on the same inputs      *)
(* (TwinSpec); of the smoothing recurrences and of isi in core.math        *)
(* (SmoothSpec, IsiSpec); of the neuron state machine (NeuronSpec); and of *)
(* the attribute Proxy (ProxySpec).  Each specification runs one of these  *)
(* programs and leaves the variables of the others idle.                   *)
(*                                                                         *)
(* Tensors are modelled at batch size 1 as functions over Units.  Real     *)
(* numbers are exact rationals <<n, d>> in lowest terms, d > 0; every      *)
(* number the model draws is dyadic, so the floating point arithmetic of   *)
(* the code is exact on it.  A boolean tensor element is the rational 0    *)
(* or 1 when it is used in arithmetic, as torch promotes it.               *)
(***************************************************************************)
EXTENDS Integers, Sequences, FiniteSets, TLC

VARIABLES syn, conn, out, res, err, lastop, nsteps, since, rd, twin,
          smooth, trains, neuron, proxy

vars == <<syn, conn, out, res, err, lastop, nsteps, since, rd, twin,
          smooth, trains, neuron, proxy>>

\* the synapse and the connection that owns it, and a second object that is
\* run beside them on the same inputs
netVars == <<syn, conn, out, res, err, lastop, nsteps, since, rd, twin>>

\* the smoothing calls, the spike trains handed to isi, the neuron group and
\* the proxy of the other programs
libVars == <<smooth, trains, neuron, proxy>>

\* ------------------------------------------------------------------ bounds

\* forward calls made on one constructed object
MaxSteps == 3

\* reads in a row that ask for the same delays
MaxReads == 2

\* observations fed to one smoothing recurrence
MaxObs == 3

\* simulation steps of a neuron group
MaxTicks == 5

\* accessors handed to a Proxy after the first, and attribute accesses made
\* on the chain it starts
MaxAcc == 2
MaxHops == 4

\* time steps of a spike train handed to isi, and trains of a batch
TrainLen == 10
Batch == 2

\* the simulated units of a synapse group (batch size 1)
Units == {1, 2}

\* ------------------------------------------------------------- rationals

Abs(x) == IF x < 0 THEN -x ELSE x

RECURSIVE Gcd(_, _)
Gcd(a, b) == IF b = 0 THEN a ELSE Gcd(b, a % b)

Rat(n, d) ==
    LET s == IF d < 0 THEN -1 ELSE 1
        g == Gcd(Abs(n), Abs(d))
    IN  <<(s * n) \div g, (s * d) \div g>>

Zero == <<0, 1>>
One == <<1, 1>>
Two == <<2, 1>>
Half == <<1, 2>>

RAdd(a, b) == Rat(a[1] * b[2] + b[1] * a[2], a[2] * b[2])
RSub(a, b) == Rat(a[1] * b[2] - b[1] * a[2], a[2] * b[2])
RMul(a, b) == Rat(a[1] * b[1], a[2] * b[2])
RDiv(a, b) == Rat(a[1] * b[2], a[2] * b[1])
RLe(a, b) == a[1] * b[2] <= b[1] * a[2]
RLt(a, b) == a[1] * b[2] < b[1] * a[2]
RFloor(a) == a[1] \div a[2]
RCeil(a) == -((-a[1]) \div a[2])
RInt(k) == <<k, 1>>

\* None, for an optional real
None == <<>>

ZeroVec == [u \in Units |-> Zero]
FalseVec == [u \in Units |-> FALSE]

\* torch's promotion of a boolean to a number
ToNum(b) == IF b THEN One ELSE Zero

\* Tensor.bool(): nonzero is True
ToBool(x) == x # Zero

RECURSIVE SumSeq(_)
SumSeq(s) == IF s = <<>> THEN Zero ELSE RAdd(Head(s), SumSeq(Tail(s)))

\* ---------------------------------------------------------------- inputs

\* spike inputs of a step: the boolean vectors, and one numeric vector that
\* is nonzero but not 1
BoolInputs == [Units -> {Zero, One}]
SpikeInputs == BoolInputs \cup {[u \in Units |-> IF u = 1 THEN Two ELSE Zero]}

IsBoolInput(x) == \A u \in Units : x[u] \in {Zero, One}

\* the injected currents of a DeltaPlusCurrent step: the tensors after the first
InjectedInputs ==
    { <<>>,
      <<[u \in Units |-> IF u = 1 THEN One ELSE Zero],
        [u \in Units |-> Half]>> }

\* constructor arguments
StepTimes == {Zero, One, Two, <<-1, 1>>}
SpikeQs == {Zero, One, <<-1, 1>>}
Delays == {<<-1, 1>>, Zero, One, Two}
ModeStrings == {"nearest", "Nearest", "previous", "PREVIOUS", "linear", "Linear", "cubic"}
Kinds == {"DeltaCurrent", "DeltaPlusCurrent"}

\* ------------------------------------------------------------ delay line
\* A record of past observations: data[k] is slot k, t the number of writes
\* since the last reset; the newest observation is in slot t % cap.

Capacity(delay, dt) == RCeil(RDiv(delay, dt)) + 1

NewLine(rest, delay, dt) ==
    [data |-> [k \in 0 .. Capacity(delay, dt) - 1 |-> rest], t |-> 0]

Cap(line) == Cardinality(DOMAIN line.data)

Write(line, v) ==
    LET k == (line.t + 1) % Cap(line)
    IN  [data |-> [line.data EXCEPT ![k] = v], t |-> line.t + 1]

Peek(line) == line.data[line.t % Cap(line)]

\* the observation written `age` steps before the newest one
AtAge(line, age) == line.data[(line.t - age) % Cap(line)]

Reset(line, rest) == [data |-> [k \in DOMAIN line.data |-> rest], t |-> 0]

\* --------------------------------------------------------- interpolation
\* vNew is the bracketing observation of age lo (the later one in time), vOld
\* the one of age hi; d is the queried delay, lo * dt <= d <= hi * dt.

interp_previous(vNew, vOld, lo, hi, d, dt, tol) == vOld

interp_nearest(vNew, vOld, lo, hi, d, dt, tol) ==
    LET dNew == RSub(d, RMul(RInt(lo), dt))
        dOld == RSub(RMul(RInt(hi), dt), d)
    IN  IF lo = hi THEN vNew
        ELSE IF RLe(dNew, tol) \/ RLe(dOld, tol)
             THEN (IF RLe(dNew, dOld) THEN vNew ELSE vOld)
        ELSE RAdd(vNew, RMul(RSub(vOld, vNew),
                             RDiv(dNew, RMul(RInt(hi - lo), dt))))

Interp(mode, vNew, vOld, lo, hi, d, dt, tol) ==
    IF mode = "previous"
    THEN interp_previous(vNew, vOld, lo, hi, d, dt, tol)
    ELSE interp_nearest(vNew, vOld, lo, hi, d, dt, tol)

\* the read of a history by delay: V[age] is the recorded value of that age
ReadAt(V, d, mode, tol, overbound, delay, dt) ==
    LET inside == RLe(Zero, d) /\ RLe(d, delay)
        dc == IF RLt(d, Zero) THEN Zero ELSE IF RLt(delay, d) THEN delay ELSE d
        off == RDiv(dc, dt)
        lo == RFloor(off)
        hi == RCeil(off)
    IN  IF ~inside /\ overbound # None THEN overbound
        ELSE IF lo = hi THEN V[lo]
        ELSE Interp(mode, V[lo], V[hi], lo, hi, dc, dt, tol)

\* ---------------------------------------------------------------- synapse

NoSyn ==
    [kind |-> "none", dt |-> Zero, delay |-> Zero, spike_q |-> Zero,
     current_interp |-> "none", spike_interp |-> "none", tolerance |-> Zero,
     current_overbound |-> None, spike_overbound |-> None,
     spike_ |-> [data |-> <<>>, t |-> 0], current_ |-> [data |-> <<>>, t |-> 0]]

Failed(kind) == [err |-> kind, obj |-> NoSyn]

\* InfernoSynapse.__init__: the step time and the maximum delay of the group;
\* a delay of None is no delay
InfernoSynapse__init__(step_time, delay) ==
    LET d == IF delay = None THEN Zero ELSE delay
    IN  IF RLe(step_time, Zero) \/ RLt(d, Zero)
        THEN Failed("ConfigurationError")
        ELSE [err |-> "none", obj |-> [NoSyn EXCEPT !.dt = step_time, !.delay = d]]

\* argtest.neq(name, value, 0, float)
argtest_neq(value, other) ==
    IF value = other THEN [err |-> "ConfigurationError", val |-> value]
    ELSE [err |-> "none", val |-> value]

\* str.lower() on the mode strings
Lower(m) ==
    CASE m = "Nearest" -> "nearest"
      [] m = "PREVIOUS" -> "previous"
      [] m = "Linear" -> "linear"
      [] OTHER -> m

\* the match statement of the constructors: the interpolation function, or
\* the error raised
MatchInterpMutLinear(mode) ==
    CASE Lower(mode) = "nearest" -> [err |-> "none", interp |-> "nearest"]
      [] Lower(mode) = "previous" -> [err |-> "none", interp |-> "previous"]
      [] Lower(mode) = "linear" -> [err |-> "none", interp |-> "linear"]
      [] OTHER -> [err |-> "RuntimeError", interp |-> "none"]

MatchInterpMutError(mode) ==
    CASE Lower(mode) = "nearest" -> [err |-> "none", interp |-> "nearest"]
      [] Lower(mode) = "previous" -> [err |-> "none", interp |-> "previous"]
      [] OTHER -> [err |-> "ConfigurationError", interp |-> "none"]

MatchInterp(mode) ==
    CASE Lower(mode) = "nearest" -> [err |-> "none", interp |-> "nearest"]
      [] Lower(mode) = "previous" -> [err |-> "none", interp |-> "previous"]
      [] OTHER -> [err |-> "RuntimeError", interp |-> "none"]

\* SpikeDerivedCurrentMixin.__init__ / SpikeCurrentMixin.__init__: the
\* histories, at rest, and the readout policies
MixinInit(s, withCurrent, interp, a) ==
    [s EXCEPT !.current_interp = interp,
              !.spike_interp = interp,
              !.tolerance = a.interp_tol,
              !.current_overbound = a.current_overbound,
              !.spike_overbound = a.spike_overbound,
              !.spike_ = NewLine(FalseVec, s.delay, s.dt),
              !.current_ = IF withCurrent THEN NewLine(ZeroVec, s.delay, s.dt)
                           ELSE NoSyn.current_]

\* the statements of a synapse constructor, in order
SynapseInitMutNoTest(kind, a) ==
    LET base == InfernoSynapse__init__(a.step_time, a.delay)
        m == MatchInterp(a.interp_mode)
    IN  IF base.err # "none" THEN Failed(base.err)
        ELSE IF m.err # "none" THEN Failed(m.err)
        ELSE [err |-> "none",
              obj |-> MixinInit([base.obj EXCEPT !.kind = kind, !.spike_q = a.spike_q],
                                kind = "DeltaPlusCurrent", m.interp, a)]

SynapseInit(kind, a) ==
    LET base == InfernoSynapse__init__(a.step_time, a.delay)
        q == argtest_neq(a.spike_q, Zero)
        m == MatchInterp(a.interp_mode)
    IN  IF base.err # "none" THEN Failed(base.err)
        ELSE IF q.err # "none" THEN Failed(q.err)
        ELSE IF m.err # "none" THEN Failed(m.err)
        ELSE [err |-> "none",
              obj |-> MixinInit([base.obj EXCEPT !.kind = kind, !.spike_q = q.val],
                                kind = "DeltaPlusCurrent", m.interp, a)]

DeltaCurrent__init__(a) == SynapseInit("DeltaCurrent", a)

DeltaPlusCurrent__init__(a) == SynapseInit("DeltaPlusCurrent", a)

Construct(kind, a) ==
    IF kind = "DeltaCurrent" THEN DeltaCurrent__init__(a) ELSE DeltaPlusCurrent__init__(a)

\* DeltaCurrent._to_current, on one element
to_currentMutNoDt(s, spike) == RMul(spike, s.spike_q)

DeltaCurrent_to_current(s, spike) == RMul(spike, RDiv(s.spike_q, s.dt))

\* the spike setter of the mixins: the newest entry of the spike history
SetSpike(s, value) ==
    [s EXCEPT !.spike_ = Write(@, [u \in Units |-> ToBool(value[u])])]

\* the current setter of SpikeCurrentMixin
SetCurrent(s, value) == [s EXCEPT !.current_ = Write(@, value)]

\* the current getter: SpikeDerivedCurrentMixin derives it from the newest
\* spikes, SpikeCurrentMixin reads the newest recorded current
Current(s) ==
    IF s.kind = "DeltaCurrent"
    THEN [u \in Units |-> DeltaCurrent_to_current(s, ToNum(Peek(s.spike_)[u]))]
    ELSE Peek(s.current_)

\* DeltaCurrent.forward(*inputs): the state after, and the value returned
DeltaCurrentForwardMutNoWrite(s, inputs) ==
    [syn |-> s, ret |-> Current(s)]

DeltaCurrentForward(s, inputs) ==
    LET s1 == SetSpike(s, inputs[1])
    IN  [syn |-> s1, ret |-> Current(s1)]

\* DeltaPlusCurrent.forward(*inputs)
DeltaPlusCurrentForwardMutNoInjected(s, inputs) ==
    LET s1 == SetSpike(s, inputs[1])
        s2 == SetCurrent(s1, [u \in Units |-> RMul(inputs[1][u], RDiv(s.spike_q, s.dt))])
    IN  [syn |-> s2, ret |-> Current(s2)]

DeltaPlusCurrentForwardMutFromSpike(s, inputs) ==
    LET s1 == SetSpike(s, inputs[1])
        total == [u \in Units |->
                    SumSeq(<<DeltaCurrent_to_current(s, ToNum(Peek(s1.spike_)[u]))>>
                           \o [k \in 1 .. Len(inputs) - 1 |-> inputs[k + 1][u]])]
        s2 == SetCurrent(s1, total)
    IN  [syn |-> s2, ret |-> Current(s2)]

DeltaPlusCurrentForward(s, inputs) ==
    LET s1 == SetSpike(s, inputs[1])
        total == [u \in Units |->
                    SumSeq(<<RMul(inputs[1][u], RDiv(s.spike_q, s.dt))>>
                           \o [k \in 1 .. Len(inputs) - 1 |-> inputs[k + 1][u]])]
        s2 == SetCurrent(s1, total)
    IN  [syn |-> s2, ret |-> Current(s2)]

Forward(s, inputs) ==
    IF s.kind = "DeltaCurrent" THEN DeltaCurrentForward(s, inputs)
    ELSE DeltaPlusCurrentForward(s, inputs)

\* DeltaCurrent.clear
DeltaCurrentClear(s) == [s EXCEPT !.spike_ = Reset(@, FalseVec)]

\* DeltaPlusCurrent.clear
DeltaPlusCurrentClearMutSpikeOnly(s) == [s EXCEPT !.spike_ = Reset(@, FalseVec)]

DeltaPlusCurrentClear(s) ==
    [s EXCEPT !.spike_ = Reset(@, FalseVec), !.current_ = Reset(@, ZeroVec)]

Clear(s) ==
    IF s.kind = "DeltaCurrent" THEN DeltaCurrentClear(s) ELSE DeltaPlusCurrentClear(s)

\* current_at, for one unit and one delay: the history the variant keeps,
\* read by delay
CurrentAt(s, u, d) ==
    LET FromSpikes == [age \in 0 .. Cap(s.spike_) - 1 |->
                          DeltaCurrent_to_current(s, ToNum(AtAge(s.spike_, age)[u]))]
        FromCurrents == [age \in 0 .. Cap(s.current_) - 1 |->
                            AtAge(s.current_, age)[u]]
    IN  IF s.kind = "DeltaCurrent"
        THEN ReadAt(FromSpikes, d, s.current_interp, s.tolerance,
                    s.current_overbound, s.delay, s.dt)
        ELSE ReadAt(FromCurrents, d, s.current_interp, s.tolerance,
                    s.current_overbound, s.delay, s.dt)

\* current_at(delay) for a tensor of delays, one per unit: the synapse after
\* the call and the value returned
current_atMutAdvance(s, d) ==
    [syn |-> [s EXCEPT !.spike_.t = @ + 1],
     ret |-> [u \in Units |-> CurrentAt(s, u, d[u])]]

current_at(s, d) ==
    [syn |-> s, ret |-> [u \in Units |-> CurrentAt(s, u, d[u])]]

\* ------------------------------------------------------------ connections
\* A connection owns a synapse, a weight, an optional bias and, when it is
\* delayed, a delay per weight.  Dense and lateral weights and delays are
\* matrices m[j][i] (output j, input i); direct ones are vectors.

RECURSIVE SumSet(_, _)
SumSet(f, S) ==
    IF S = {} THEN Zero
    ELSE LET x == CHOOSE y \in S : TRUE
         IN  RAdd(f[x], SumSet(f, S \ {x}))

NoConn == [type |-> "none"]

ConnTypes == {"DenseLinear", "DirectLinear", "LateralLinear"}

\* 1 - torch.eye(size)
Mask == [j \in Units |-> [i \in Units |-> IF i = j THEN Zero ELSE One]]

\* the partial constructors handed to a connection
PartialCtors ==
    { [kind |-> "DeltaCurrent", spike_q |-> One, interp_mode |-> "previous"],
      [kind |-> "DeltaPlusCurrent", spike_q |-> One, interp_mode |-> "nearest"],
      [kind |-> "DeltaCurrent", spike_q |-> Zero, interp_mode |-> "previous"] }

\* partialconstructor(...)(shape, step_time, delay, batch_size)
PartialCall(p, step_time, delay) ==
    Construct(p.kind,
              [step_time |-> step_time, spike_q |-> p.spike_q, delay |-> delay,
               interp_mode |-> p.interp_mode, interp_tol |-> Zero,
               current_overbound |-> Zero, spike_overbound |-> FALSE])

\* torch.rand, torch.zeros and the optional initializers, as drawn
RandMatrix(type) ==
    IF type = "DirectLinear" THEN [i \in Units |-> Half]
    ELSE IF type = "LateralLinear"
    THEN [j \in Units |-> [i \in Units |-> RMul(Half, Mask[j][i])]]
    ELSE [j \in Units |-> [i \in Units |-> IF i = j THEN Half ELSE <<1, 4>>]]

RandBias == [j \in Units |-> <<1, 4>>]

ZerosLike(type) ==
    IF type = "DirectLinear" THEN [i \in Units |-> Zero]
    ELSE [j \in Units |-> [i \in Units |-> Zero]]

\* the initializers: None, or a function of the parameter
Inits == {"None", "set"}

weight_init(type, w) ==
    IF type = "DirectLinear" THEN [i \in Units |-> RInt(i)]
    ELSE [j \in Units |-> [i \in Units |-> RInt(i + j)]]

delay_init(type, d) ==
    IF type = "DirectLinear" THEN [i \in Units |-> IF i = 1 THEN One ELSE Zero]
    ELSE [j \in Units |-> [i \in Units |-> IF i = 1 THEN One ELSE Half]]

ConnArgs ==
    [step_time : {Zero, One, Two, <<-1, 1>>},
     delay : {None, <<-1, 1>>, Zero, One, Two},
     bias : BOOLEAN,
     synapse : PartialCtors,
     weight_init : Inits,
     delay_init : Inits]

ConnFailed(kind, invoked) ==
    [err |-> kind, conn |-> NoConn, syn |-> NoSyn, invoked |-> invoked]

\* the parameters handed to Connection.__init__ and the initializers after it
ConnBuild(type, a, s) ==
    LET delayed == a.delay # None /\ a.delay # Zero
        w0 == RandMatrix(type)
        d0 == ZerosLike(type)
    IN  [type |-> type,
         weight |-> IF a.weight_init # "None" THEN weight_init(type, w0) ELSE w0,
         biased |-> a.bias,
         bias |-> RandBias,
         delayed |-> delayed,
         delay |-> IF a.delay_init # "None" /\ delayed THEN delay_init(type, d0)
                   ELSE d0]

\* the statements of a connection constructor, in order
ConnInitMutLateCheck(type, a) ==
    LET sd == IF a.delay = None \/ a.delay = Zero THEN None ELSE a.delay
        r == PartialCall(a.synapse, a.step_time, sd)
    IN  IF r.err # "none" THEN ConnFailed(r.err, TRUE)
        ELSE IF RLe(a.step_time, Zero) THEN ConnFailed("ValueError", TRUE)
        ELSE IF a.delay # None /\ RLe(a.delay, Zero)
        THEN ConnFailed("ValueError", TRUE)
        ELSE [err |-> "none", conn |-> ConnBuild(type, a, r.obj), syn |-> r.obj,
              invoked |-> TRUE]

ConnInitMutNegativeOnly(type, a) ==
    IF RLe(a.step_time, Zero) THEN ConnFailed("ValueError", FALSE)
    ELSE IF a.delay # None /\ RLt(a.delay, Zero) THEN ConnFailed("ValueError", FALSE)
    ELSE LET sd == IF a.delay = None \/ a.delay = Zero THEN None ELSE a.delay
             r == PartialCall(a.synapse, a.step_time, sd)
         IN  IF r.err # "none" THEN ConnFailed(r.err, TRUE)
             ELSE [err |-> "none", conn |-> ConnBuild(type, a, r.obj),
                   syn |-> r.obj, invoked |-> TRUE]

ConnInit(type, a) ==
    IF RLe(a.step_time, Zero) THEN ConnFailed("ValueError", FALSE)
    ELSE IF a.delay # None /\ RLe(a.delay, Zero) THEN ConnFailed("ValueError", FALSE)
    ELSE LET sd == IF a.delay = None \/ a.delay = Zero THEN None ELSE a.delay
             r == PartialCall(a.synapse, a.step_time, sd)
         IN  IF r.err # "none" THEN ConnFailed(r.err, TRUE)
             ELSE [err |-> "none", conn |-> ConnBuild(type, a, r.obj),
                   syn |-> r.obj, invoked |-> TRUE]

DenseLinear__init__(a) == ConnInit("DenseLinear", a)

DirectLinear__init__(a) == ConnInit("DirectLinear", a)

LateralLinear__init__(a) == ConnInit("LateralLinear", a)

ConnConstruct(type, a) ==
    CASE type = "DenseLinear" -> DenseLinear__init__(a)
      [] type = "DirectLinear" -> DirectLinear__init__(a)
      [] OTHER -> LateralLinear__init__(a)

\* the delay each weight is read at
ReadDelay(c, j, i) ==
    IF c.type = "LateralLinear" THEN RMul(c.delay[j][i], Mask[j][i])
    ELSE c.delay[j][i]

\* synapse.current_at(delays): one read per weight
ReadMatrix(c, s) ==
    [j \in Units |-> [i \in Units |-> CurrentAt(s, i, ReadDelay(c, j, i))]]

\* F.linear(input, weight, bias) on a batch of one: the bias of a dense or
\* lateral connection has shape (size, 1), which does not expand to the
\* (1, size) result when size > 1
Linear(r, w, c) ==
    IF c.biased /\ Cardinality(Units) > 1
    THEN [err |-> "RuntimeError", val |-> ZeroVec]
    ELSE [err |-> "none",
          val |-> [j \in Units |->
                     RAdd(SumSet([i \in Units |-> RMul(r[i], w[j][i])], Units),
                          IF c.biased THEN c.bias[j] ELSE Zero)]]

\* forward(inputs) of a connection: the synapse after, the currents used
\* (res), the value returned and the error raised
DenseLinearForwardMutReadFirst(c, s, x) ==
    LET f == Forward(s, <<x>>)
        r == ReadMatrix(c, s)
    IN  IF c.delayed
        THEN [syn |-> f.syn, res |-> r, err |-> "none",
              ret |-> [j \in Units |->
                         SumSet([i \in Units |->
                                   RAdd(RMul(r[j][i], c.weight[j][i]),
                                        IF c.biased THEN c.bias[j] ELSE Zero)],
                                Units)]]
        ELSE LET l == Linear(f.ret, c.weight, c)
             IN  [syn |-> f.syn, res |-> f.ret, err |-> l.err, ret |-> l.val]

DenseLinearForward(c, s, x) ==
    LET f == Forward(s, <<x>>)
        r == ReadMatrix(c, f.syn)
    IN  IF c.delayed
        THEN [syn |-> f.syn, res |-> r, err |-> "none",
              ret |-> [j \in Units |->
                         SumSet([i \in Units |->
                                   RAdd(RMul(r[j][i], c.weight[j][i]),
                                        IF c.biased THEN c.bias[j] ELSE Zero)],
                                Units)]]
        ELSE LET l == Linear(f.ret, c.weight, c)
             IN  [syn |-> f.syn, res |-> f.ret, err |-> l.err, ret |-> l.val]

DirectLinearForwardMutStale(c, s, x) ==
    LET f == Forward(s, <<x>>)
        r == IF c.delayed
             THEN [i \in Units |-> CurrentAt(s, i, c.delay[i])]
             ELSE f.ret
    IN  [syn |-> f.syn, res |-> r, err |-> "none",
         ret |-> [i \in Units |->
                    RAdd(RMul(r[i], c.weight[i]),
                         IF c.biased THEN c.bias[i] ELSE Zero)]]

DirectLinearForward(c, s, x) ==
    LET f == Forward(s, <<x>>)
        r == IF c.delayed
             THEN [i \in Units |-> CurrentAt(f.syn, i, c.delay[i])]
             ELSE f.ret
    IN  [syn |-> f.syn, res |-> r, err |-> "none",
         ret |-> [i \in Units |->
                    RAdd(RMul(r[i], c.weight[i]),
                         IF c.biased THEN c.bias[i] ELSE Zero)]]

LateralLinearForwardMutNoMask(c, s, x) ==
    LET f == Forward(s, <<x>>)
        r == ReadMatrix(c, f.syn)
    IN  IF c.delayed
        THEN [syn |-> f.syn, res |-> r, err |-> "none",
              ret |-> [j \in Units |->
                         SumSet([i \in Units |->
                                   RAdd(RMul(r[j][i], c.weight[j][i]),
                                        IF c.biased THEN c.bias[j] ELSE Zero)],
                                Units)]]
        ELSE LET l == Linear(f.ret, c.weight, c)
             IN  [syn |-> f.syn, res |-> f.ret, err |-> l.err, ret |-> l.val]

LateralLinearForward(c, s, x) ==
    LET f == Forward(s, <<x>>)
        r == ReadMatrix(c, f.syn)
        masked == [j \in Units |-> [i \in Units |-> RMul(c.weight[j][i], Mask[j][i])]]
    IN  IF c.delayed
        THEN [syn |-> f.syn, res |-> r, err |-> "none",
              ret |-> [j \in Units |->
                         SumSet([i \in Units |->
                                   RAdd(RMul(RMul(r[j][i], c.weight[j][i]), Mask[j][i]),
                                        IF c.biased THEN c.bias[j] ELSE Zero)],
                                Units)]]
        ELSE LET l == Linear(f.ret, masked, c)
             IN  [syn |-> f.syn, res |-> f.ret, err |-> l.err, ret |-> l.val]

ConnForward(c, s, x) ==
    CASE c.type = "DenseLinear" -> DenseLinearForward(c, s, x)
      [] c.type = "DirectLinear" -> DirectLinearForward(c, s, x)
      [] OTHER -> LateralLinearForward(c, s, x)

\* every recorded observation is the resting one
AtRest(s) ==
    /\ \A k \in DOMAIN s.spike_.data : s.spike_.data[k] = FalseVec
    /\ \A k \in DOMAIN s.current_.data : s.current_.data[k] = ZeroVec

\* ------------------------------------------------------------ the program
\* since: the forward calls since the construction or the last clear(),
\* whether a clear() was made, and whether it found a history not at rest.

NoOp == [op |-> "none"]

SynapseArgs ==
    [step_time : StepTimes, spike_q : SpikeQs, delay : Delays,
     interp_mode : ModeStrings, interp_tol : {Zero},
     current_overbound : {Zero}, spike_overbound : {FALSE}]

\* no read of the histories made since the last step
NoRead == [n |-> 0]

\* no second object
NoTwin == [syn |-> NoSyn, conn |-> NoConn, out |-> ZeroVec, err |-> "none"]

\* nothing of the synapse program exists
NetIdle ==
    /\ syn = NoSyn
    /\ conn = NoConn
    /\ out = ZeroVec
    /\ res = ZeroVec
    /\ err = "none"
    /\ lastop = NoOp
    /\ nsteps = 0
    /\ since = [n |-> 0, cleared |-> FALSE, dirty |-> FALSE]
    /\ rd = NoRead
    /\ twin = NoTwin

\* no call made
NoCall == [fn |-> "none"]

\* nothing of the other programs exists
LibIdle ==
    /\ smooth = NoCall
    /\ trains = NoCall
    /\ neuron = NoCall
    /\ proxy = NoCall

Init == NetIdle /\ LibIdle

\* a synapse is constructed on its own; a constructor that raises ends the
\* run
NewSynapse ==
    /\ lastop = NoOp
    /\ \E kind \in Kinds, a \in SynapseArgs :
          \E r \in {Construct(kind, a)} :
              /\ syn' = r.obj
              /\ err' = r.err
              /\ lastop' = [op |-> "synapse", kind |-> kind, args |-> a]
    /\ nsteps' = 0
    /\ since' = [n |-> 0, cleared |-> FALSE, dirty |-> FALSE]
    /\ UNCHANGED <<conn, out, res, rd>>
    /\ UNCHANGED <<twin, libVars>>

\* one simulation step of a synapse that is driven directly
Step ==
    /\ syn.kind # "none"
    /\ conn.type = "none"
    /\ nsteps < MaxSteps
    /\ \E x \in SpikeInputs, inj \in InjectedInputs :
          \E r \in {Forward(syn, <<x>> \o inj)} :
              /\ syn' = r.syn
              /\ out' = r.ret
              /\ lastop' = [op |-> "forward", inputs |-> <<x>> \o inj]
    /\ err' = "none"
    /\ nsteps' = nsteps + 1
    /\ since' = [since EXCEPT !.n = @ + 1]
    /\ rd' = NoRead
    /\ UNCHANGED <<conn, res>>
    /\ UNCHANGED <<twin, libVars>>

\* clear()
ClearStep ==
    /\ syn.kind # "none"
    /\ syn' = Clear(syn)
    /\ err' = "none"
    /\ lastop' = [op |-> "clear"]
    /\ since' = [n |-> 0, cleared |-> TRUE, dirty |-> ~AtRest(syn)]
    /\ rd' = NoRead
    /\ UNCHANGED <<conn, out, res, nsteps>>
    /\ UNCHANGED <<twin, libVars>>

\* a connection is constructed, and its synapse by it
NewConnection ==
    /\ lastop = NoOp
    /\ \E type \in ConnTypes, a \in ConnArgs :
          \E r \in {ConnConstruct(type, a)} :
              /\ syn' = r.syn
              /\ conn' = r.conn
              /\ err' = r.err
              /\ lastop' = [op |-> "connection", type |-> type, args |-> a,
                            invoked |-> r.invoked]
    /\ nsteps' = 0
    /\ since' = [n |-> 0, cleared |-> FALSE, dirty |-> FALSE]
    /\ UNCHANGED <<out, res, rd>>
    /\ UNCHANGED <<twin, libVars>>

\* forward(inputs) of the connection
ConnStep ==
    /\ conn.type # "none"
    /\ nsteps < MaxSteps
    /\ \E x \in SpikeInputs :
          \E r \in {ConnForward(conn, syn, x)} :
              /\ syn' = r.syn
              /\ res' = r.res
              /\ err' = r.err
              /\ out' = IF r.err = "none" THEN r.ret ELSE out
              /\ lastop' = [op |-> "connforward", inputs |-> <<x>>]
    /\ nsteps' = nsteps + 1
    /\ since' = [since EXCEPT !.n = @ + 1]
    /\ rd' = NoRead
    /\ UNCHANGED conn
    /\ UNCHANGED <<twin, libVars>>

Next == NewSynapse \/ Step \/ ClearStep \/ NewConnection \/ ConnStep

Spec == Init /\ [][Next]_vars

\* ------------------------------------------- the program that reads by delay
\* A synapse that was constructed is stepped, cleared and read by delay.
\* rd: the reads made since the last step: how many in a row asked for the
\* same delays, the delays and the value returned.

\* the synapses read: a maximum delay of two steps or of one
ReadArgs ==
    [step_time : {One, Two}, spike_q : {One}, delay : {Two},
     interp_mode : {"nearest", "previous"}, interp_tol : {Zero},
     current_overbound : {Zero}, spike_overbound : {FALSE}]

\* the delays asked for: on and between observations, and past the oldest
ReadDelays ==
    { [u \in Units |-> IF u = 1 THEN Zero ELSE One],
      [u \in Units |-> IF u = 1 THEN Half ELSE <<5, 1>>] }

ReadInit ==
    /\ \E kind \in Kinds, a \in ReadArgs :
          /\ syn = Construct(kind, a).obj
          /\ lastop = [op |-> "synapse", kind |-> kind, args |-> a]
    /\ conn = NoConn
    /\ out = ZeroVec
    /\ res = ZeroVec
    /\ err = "none"
    /\ nsteps = 0
    /\ since = [n |-> 0, cleared |-> FALSE, dirty |-> FALSE]
    /\ rd = NoRead
    /\ twin = NoTwin
    /\ LibIdle

\* current_at(delay)
ReadStep ==
    /\ syn.kind # "none"
    /\ conn.type = "none"
    /\ \E d \in ReadDelays :
          /\ (rd.n > 0 /\ rd.delay = d) => rd.n < MaxReads
          /\ \E r \in {current_at(syn, d)} :
                /\ syn' = r.syn
                /\ rd' = [n |-> IF rd.n > 0 /\ rd.delay = d THEN rd.n + 1 ELSE 1,
                          delay |-> d, ret |-> r.ret]
    /\ lastop' = [op |-> "read"]
    /\ UNCHANGED <<conn, out, res, err, nsteps, since>>
    /\ UNCHANGED <<twin, libVars>>

ReadNext == Step \/ ClearStep \/ ReadStep

ReadSpec == ReadInit /\ [][ReadNext]_vars

\* ------------------------------------------- two objects on the same inputs
\* Either a delayed connection (conn, syn) beside the same connection built
\* without delay, with the same weights, or a DeltaPlusCurrent synapse (syn)
\* beside a DeltaCurrent synapse built with the same arguments.  Every forward
\* call is made on both, with the same input.

\* the connections run side by side: without bias, delayed
TwinArgs ==
    [step_time : {One, Two},
     delay : {One, Two},
     bias : {FALSE},
     synapse : {p \in PartialCtors : p.spike_q # Zero},
     weight_init : Inits,
     delay_init : Inits]

TwinInit ==
    /\ \/ \E type \in ConnTypes, a \in TwinArgs :
             \E r \in {ConnConstruct(type, a)},
                t \in {ConnConstruct(type, [a EXCEPT !.delay = None])} :
                 /\ syn = r.syn
                 /\ conn = r.conn
                 /\ twin = [syn |-> t.syn,
                            conn |-> [t.conn EXCEPT !.weight = r.conn.weight],
                            out |-> ZeroVec, err |-> "none"]
       \/ \E a \in ReadArgs :
             /\ syn = Construct("DeltaPlusCurrent", a).obj
             /\ conn = NoConn
             /\ twin = [syn |-> Construct("DeltaCurrent", a).obj, conn |-> NoConn,
                        out |-> ZeroVec, err |-> "none"]
    /\ out = ZeroVec
    /\ res = ZeroVec
    /\ err = "none"
    /\ lastop = NoOp
    /\ nsteps = 0
    /\ since = [n |-> 0, cleared |-> FALSE, dirty |-> FALSE]
    /\ rd = NoRead
    /\ LibIdle

\* forward(inputs) of both connections
TwinConnStep ==
    /\ conn.type # "none"
    /\ nsteps < MaxSteps
    /\ \E x \in SpikeInputs :
          \E r \in {ConnForward(conn, syn, x)},
             t \in {ConnForward(twin.conn, twin.syn, x)} :
              /\ syn' = r.syn
              /\ res' = r.res
              /\ err' = r.err
              /\ out' = IF r.err = "none" THEN r.ret ELSE out
              /\ twin' = [twin EXCEPT !.syn = t.syn, !.err = t.err,
                                      !.out = IF t.err = "none" THEN t.ret ELSE @]
              /\ lastop' = [op |-> "twinforward", inputs |-> <<x>>]
    /\ nsteps' = nsteps + 1
    /\ since' = [since EXCEPT !.n = @ + 1]
    /\ UNCHANGED <<conn, rd>>
    /\ UNCHANGED libVars

\* forward(inputs) of both synapses, without injected current
TwinSynStep ==
    /\ conn.type = "none"
    /\ syn.kind # "none"
    /\ nsteps < MaxSteps
    /\ \E x \in SpikeInputs :
          \E r \in {Forward(syn, <<x>>)}, t \in {Forward(twin.syn, <<x>>)} :
              /\ syn' = r.syn
              /\ out' = r.ret
              /\ twin' = [twin EXCEPT !.syn = t.syn, !.out = t.ret]
              /\ lastop' = [op |-> "twinforward", inputs |-> <<x>>]
    /\ err' = "none"
    /\ nsteps' = nsteps + 1
    /\ since' = [since EXCEPT !.n = @ + 1]
    /\ UNCHANGED <<conn, res, rd>>
    /\ UNCHANGED libVars

TwinNext == TwinConnStep \/ TwinSynStep

TwinSpec == TwinInit /\ [][TwinNext]_vars

\* ------------------------------------------------------------- the claims

IsSynStep == lastop.op = "forward"

SpikeIn == lastop.inputs[1]

Injected(u) == SumSeq([k \in 1 .. Len(lastop.inputs) - 1 |-> lastop.inputs[k + 1][u]])

Quantum == RDiv(syn.spike_q, syn.dt)

ValidBase(a) ==
    /\ RLt(Zero, a.step_time)
    /\ RLe(Zero, a.delay)

\* C1: a DeltaCurrent step on a boolean input returns spike_q/dt for the units
\* whose input spike is true and 0 for the others, whatever the earlier steps
\* were: the value is a function of this step's input alone.
C1_DeltaMemoryless ==
    (IsSynStep /\ syn.kind = "DeltaCurrent" /\ IsBoolInput(SpikeIn))
        => \A u \in Units :
              out[u] = IF SpikeIn[u] = One THEN Quantum ELSE Zero

\* a second step, after a step in which unit 1 spiked, in which unit 1 is
\* silent and unit 2 spikes, at a step time that is not 1
C1_Witness ==
    /\ IsSynStep /\ syn.kind = "DeltaCurrent" /\ IsBoolInput(SpikeIn)
    /\ nsteps = 2 /\ Cap(syn.spike_) >= 2 /\ syn.dt = Two
    /\ AtAge(syn.spike_, 1)[1]
    /\ SpikeIn[1] = Zero /\ SpikeIn[2] = One
    /\ out[1] = Zero /\ out[2] = Quantum

\* C2: a DeltaPlusCurrent step on a boolean spike input returns, per unit,
\* spike_q/dt if the unit spiked (else 0) plus the sum of the injected
\* currents; an unspiked unit gets the injected current alone; and the value
\* returned is the newest entry of the current history.
C2_DeltaPlusStep ==
    (IsSynStep /\ syn.kind = "DeltaPlusCurrent" /\ IsBoolInput(SpikeIn))
        => /\ \A u \in Units :
                 /\ out[u] = RAdd(IF SpikeIn[u] = One THEN Quantum ELSE Zero,
                                  Injected(u))
                 /\ SpikeIn[u] = Zero => out[u] = Injected(u)
           /\ Peek(syn.current_) = out

\* two injected tensors, unit 1 silent and unit 2 spiking
C2_Witness ==
    /\ IsSynStep /\ syn.kind = "DeltaPlusCurrent"
    /\ Len(lastop.inputs) = 3
    /\ SpikeIn[1] = Zero /\ SpikeIn[2] = One
    /\ out[1] = <<3, 2>>
    /\ out[2] = RAdd(Quantum, Half)
    /\ Peek(syn.current_) = out

\* C3: a DeltaCurrent synapse in 'previous' mode whose maximum delay is at
\* least one step, stepped exactly once from the cleared state with a spike:
\* current_at(0) is spike_q/dt and current_at(dt) is 0.
C3_SingleSpikeReadout ==
    (/\ IsSynStep /\ syn.kind = "DeltaCurrent"
     /\ syn.current_interp = "previous"
     /\ RLe(syn.dt, syn.delay)
     /\ since.n = 1)
        => \A u \in Units :
              SpikeIn[u] = One =>
                 /\ CurrentAt(syn, u, Zero) = Quantum
                 /\ CurrentAt(syn, u, syn.dt) = Zero

\* the scenario of the specification: dt = 1.0, spike_q = 1.0, one spike
C3_Witness ==
    /\ IsSynStep /\ syn.kind = "DeltaCurrent"
    /\ syn.current_interp = "previous"
    /\ syn.dt = One /\ syn.spike_q = One /\ syn.delay = One
    /\ since.n = 1
    /\ SpikeIn[1] = One
    /\ CurrentAt(syn, 1, Zero) = One
    /\ CurrentAt(syn, 1, One) = Zero

IsConnStep == lastop.op = "connforward"

\* what the synapse's step makes of one input element
StepCurrent(s, x) ==
    IF s.kind = "DeltaCurrent" THEN RMul(ToNum(ToBool(x)), RDiv(s.spike_q, s.dt))
    ELSE RMul(x, RDiv(s.spike_q, s.dt))

\* C4: a forward call of a connection steps its synapse exactly once, with
\* the new input, and on the delayed path the currents it uses are
\* current_at(delay) of the synapse as it is after that step: a delay of 0
\* reads the input of this very call.
C4_StepThenRead ==
    [][(lastop'.op = "connforward" /\ nsteps' = nsteps + 1)
          => /\ syn'.spike_.t = syn.spike_.t + 1
             /\ Peek(syn'.spike_) = [u \in Units |-> ToBool(lastop'.inputs[1][u])]
             /\ syn.kind = "DeltaPlusCurrent"
                   => syn'.current_.t = syn.current_.t + 1
             /\ (conn.delayed /\ conn.type = "DirectLinear")
                   => \A i \in Units :
                         /\ res'[i] = CurrentAt(syn', i, conn.delay[i])
                         /\ conn.delay[i] = Zero
                               => res'[i] = StepCurrent(syn, lastop'.inputs[1][i])
             /\ (conn.delayed /\ conn.type # "DirectLinear")
                   => \A j, i \in Units :
                         /\ res'[j][i] = CurrentAt(syn', i, ReadDelay(conn, j, i))
                         /\ ReadDelay(conn, j, i) = Zero
                               => res'[j][i] = StepCurrent(syn, lastop'.inputs[1][i])
      ]_vars

\* the second forward call of a delayed dense connection with zero delays:
\* unit 1, silent in the first call, spikes in the second, and the currents
\* read are those of the second call
C4_Witness ==
    /\ IsConnStep /\ conn.type = "DenseLinear" /\ conn.delayed
    /\ conn.delay = ZerosLike("DenseLinear")
    /\ nsteps = 2 /\ syn.spike_.t = 2
    /\ ~AtAge(syn.spike_, 1)[1]
    /\ lastop.inputs[1][1] = One
    /\ res[1][1] = Quantum /\ res[2][1] = Quantum

\* the constructor arguments a live synapse was built with
ArgsOf(s) ==
    [step_time |-> s.dt, spike_q |-> s.spike_q, delay |-> s.delay,
     interp_mode |-> s.current_interp, interp_tol |-> s.tolerance,
     current_overbound |-> s.current_overbound,
     spike_overbound |-> s.spike_overbound]

IsZeroStep ==
    /\ IsSynStep
    /\ SpikeIn = ZeroVec
    /\ \A k \in 2 .. Len(lastop.inputs) : lastop.inputs[k] = ZeroVec

\* C5: clear() and then one step with zero input leaves the synapse exactly
\* as a freshly constructed synapse of the same parameters stepped once with
\* zero input: output 0, recorded spike false, no residue in any history.
C5_ClearRoundTrip ==
    (IsZeroStep /\ since.cleared /\ since.n = 1)
        => LET fresh == Forward(Construct(syn.kind, ArgsOf(syn)).obj, <<ZeroVec>>)
           IN  /\ syn = fresh.syn
               /\ out = fresh.ret
               /\ out = ZeroVec
               /\ Peek(syn.spike_) = FalseVec
               /\ AtRest(syn)

\* a DeltaPlusCurrent synapse keeping more than one observation, cleared
\* with a history that was not at rest, then stepped once with zero input
C5_Witness ==
    /\ IsZeroStep /\ since.cleared /\ since.n = 1 /\ since.dirty
    /\ syn.kind = "DeltaPlusCurrent"
    /\ Cap(syn.current_) >= 2
    /\ nsteps >= 2
    /\ out = ZeroVec

IsSynCtor == lastop.op = "synapse"

SupportedModes == {"nearest", "previous"}

\* C6: a synapse constructor called with spike_q = 0 raises a
\* ConfigurationError and produces no synapse; with any other spike_q, of
\* either sign, and the other parameters valid, it produces the synapse.
C6_ZeroChargeRejected ==
    IsSynCtor =>
        /\ lastop.args.spike_q = Zero
              => (err = "ConfigurationError" /\ syn = NoSyn)
        /\ (/\ lastop.args.spike_q # Zero
            /\ ValidBase(lastop.args)
            /\ Lower(lastop.args.interp_mode) \in SupportedModes)
              => (/\ err = "none"
                  /\ syn.kind = lastop.kind
                  /\ syn.spike_q = lastop.args.spike_q)

C6_Witness ==
    /\ IsSynCtor
    /\ lastop.args.spike_q = Zero
    /\ ValidBase(lastop.args)
    /\ lastop.args.interp_mode = "previous"
    /\ err = "ConfigurationError"
    /\ syn = NoSyn

\* C7 as claimed: an interpolation mode outside the supported ones fails with
\* a ConfigurationError.
C7_Original ==
    (IsSynCtor /\ Lower(lastop.args.interp_mode) \notin {"nearest", "previous", "linear"})
        => (err = "ConfigurationError" /\ syn = NoSyn)

\* C7, amended: an interpolation mode that is neither 'nearest' nor
\* 'previous' fails at construction, and the error raised for it (the step
\* time, the delay and spike_q being valid) is a RuntimeError.
C7_UnknownModeRuntimeError ==
    (IsSynCtor /\ Lower(lastop.args.interp_mode) \notin SupportedModes)
        => /\ err # "none"
           /\ syn = NoSyn
           /\ (ValidBase(lastop.args) /\ lastop.args.spike_q # Zero)
                 => err = "RuntimeError"

C7_Witness ==
    /\ IsSynCtor
    /\ lastop.args.interp_mode = "cubic"
    /\ ValidBase(lastop.args) /\ lastop.args.spike_q # Zero
    /\ err = "RuntimeError"
    /\ syn = NoSyn

\* C8 as claimed: 'nearest', 'previous' and 'linear', in any letter case, all
\* construct and select their policy for the current and the spike readout.
C8_Original ==
    (/\ IsSynCtor
     /\ ValidBase(lastop.args) /\ lastop.args.spike_q # Zero
     /\ Lower(lastop.args.interp_mode) \in {"nearest", "previous", "linear"})
        => /\ err = "none"
           /\ syn.current_interp = Lower(lastop.args.interp_mode)
           /\ syn.spike_interp = Lower(lastop.args.interp_mode)

\* C8, amended: 'nearest' and 'previous', in any letter case, construct and
\* select their policy for the current and the spike readout; 'linear', in
\* any letter case, is rejected with a RuntimeError.
C8_TwoModesAccepted ==
    (IsSynCtor /\ ValidBase(lastop.args) /\ lastop.args.spike_q # Zero)
        => /\ Lower(lastop.args.interp_mode) \in SupportedModes
                 => /\ err = "none"
                    /\ syn.kind = lastop.kind
                    /\ syn.current_interp = Lower(lastop.args.interp_mode)
                    /\ syn.spike_interp = Lower(lastop.args.interp_mode)
           /\ Lower(lastop.args.interp_mode) = "linear"
                 => (err = "RuntimeError" /\ syn = NoSyn)

C8_Witness ==
    /\ IsSynCtor
    /\ lastop.args.interp_mode = "PREVIOUS"
    /\ err = "none"
    /\ syn.kind = "DeltaPlusCurrent"
    /\ syn.current_interp = "previous"
    /\ syn.spike_interp = "previous"

IsConnCtor == lastop.op = "connection"

NothingBuilt == syn = NoSyn /\ conn = NoConn

\* C9: a connection constructor called with step_time <= 0 raises ValueError
\* before the synapse constructor is invoked: no synapse, weight, bias or
\* delay exists afterwards.
C9_StepTimeCheckedFirst ==
    (IsConnCtor /\ RLe(lastop.args.step_time, Zero))
        => /\ err = "ValueError"
           /\ ~lastop.invoked
           /\ NothingBuilt

\* a step time of 0 with every other argument valid
C9_Witness ==
    /\ IsConnCtor
    /\ lastop.args.step_time = Zero
    /\ lastop.args.delay = One
    /\ lastop.args.synapse.spike_q # Zero
    /\ err = "ValueError"
    /\ ~lastop.invoked
    /\ NothingBuilt

\* C10 as claimed: a connection constructed with delay = 0 (the step time and
\* the synapse arguments valid) does not raise.
C10_Original ==
    (/\ IsConnCtor
     /\ lastop.args.delay = Zero
     /\ RLt(Zero, lastop.args.step_time)
     /\ lastop.args.synapse.spike_q # Zero)
        => (err = "none" /\ conn.type = lastop.type)

\* C10, amended: with a valid step time, a delay that is not None and is
\* zero or negative raises ValueError before the synapse is constructed;
\* a delay of None or a positive delay constructs the connection (undelayed
\* for None, delayed otherwise).
C10_ZeroDelayRejected ==
    (IsConnCtor /\ RLt(Zero, lastop.args.step_time))
        => /\ (lastop.args.delay # None /\ RLe(lastop.args.delay, Zero))
                 => (err = "ValueError" /\ ~lastop.invoked /\ NothingBuilt)
           /\ (/\ lastop.args.delay = None \/ RLt(Zero, lastop.args.delay)
               /\ lastop.args.synapse.spike_q # Zero)
                 => /\ err = "none"
                    /\ conn.type = lastop.type
                    /\ conn.delayed = (lastop.args.delay # None)
                    /\ syn.kind = lastop.args.synapse.kind

C10_Witness ==
    /\ IsConnCtor
    /\ lastop.args.delay = Zero
    /\ lastop.args.step_time = One
    /\ lastop.args.synapse.spike_q # Zero
    /\ err = "ValueError"
    /\ NothingBuilt

\* ------------------------------------------------------ core.math: smoothing
\* A call is made with its positional arguments and its keyword arguments,
\* as Python binds them: exponential_smoothing takes two positional
\* parameters and the keyword-only alpha.

NoKeywords == <<>>

exponential_smoothingMutNoInit(args, kw) ==
    IF Len(args) # 2 \/ DOMAIN kw # {"alpha"}
    THEN [err |-> "TypeError", val |-> None]
    ELSE [err |-> "none",
          val |-> RAdd(RMul(kw.alpha, args[1]),
                       RMul(RSub(One, kw.alpha),
                            IF args[2] = None THEN Zero ELSE args[2]))]

exponential_smoothing(args, kw) ==
    IF Len(args) # 2 \/ DOMAIN kw # {"alpha"}
    THEN [err |-> "TypeError", val |-> None]
    ELSE [err |-> "none",
          val |-> IF args[2] = None THEN args[1]
                  ELSE RAdd(RMul(kw.alpha, args[1]),
                            RMul(RSub(One, kw.alpha), args[2]))]

\* holt_linear_smoothing(obs, level, trend, alpha=alpha, beta=beta)
holt_linear_smoothing(obs, level, trend, alpha, beta) ==
    IF level = None THEN [err |-> "none", level |-> obs, trend |-> None]
    ELSE LET tr == IF trend = None THEN RSub(obs, level) ELSE trend
             s == exponential_smoothing(<<obs, RAdd(level, tr), alpha>>, NoKeywords)
         IN  IF s.err # "none" THEN [err |-> s.err, level |-> level, trend |-> trend]
             ELSE LET b == exponential_smoothing(<<RSub(s.val, level), tr, beta>>,
                                                 NoKeywords)
                  IN  IF b.err # "none"
                      THEN [err |-> b.err, level |-> level, trend |-> trend]
                      ELSE [err |-> "none", level |-> s.val, trend |-> b.val]

\* the smoothing factors and the observations
Factors == {Zero, Half, One}

Observations == {Zero, One, Two, <<-1, 1>>}

\* smooth: the recurrence run, its factors, the level and the trend threaded
\* through the calls, those handed to the last call (prev), the first and
\* the last observation, the calls made and the error raised
SmoothInit ==
    /\ NetIdle
    /\ trains = NoCall /\ neuron = NoCall /\ proxy = NoCall
    /\ \E fn \in {"exponential", "holt"}, alpha \in Factors, beta \in Factors :
          /\ fn = "exponential" => beta = Zero
          /\ smooth = [fn |-> fn, alpha |-> alpha, beta |-> beta,
                       level |-> None, trend |-> None,
                       prev |-> [level |-> None, trend |-> None],
                       first |-> None, obs |-> None, n |-> 0, err |-> "none"]

\* level = exponential_smoothing(obs, level, alpha=alpha)
ExpStep ==
    /\ smooth.fn = "exponential"
    /\ smooth.err = "none"
    /\ smooth.n < MaxObs
    /\ \E obs \in Observations :
          \E r \in {exponential_smoothing(<<obs, smooth.level>>,
                                          [alpha |-> smooth.alpha])} :
              smooth' = [smooth EXCEPT
                            !.level = IF r.err = "none" THEN r.val ELSE @,
                            !.prev = [level |-> smooth.level, trend |-> None],
                            !.first = IF smooth.n = 0 THEN obs ELSE @,
                            !.obs = obs,
                            !.n = @ + 1,
                            !.err = r.err]
    /\ UNCHANGED <<trains, neuron, proxy>>
    /\ UNCHANGED netVars

\* level, trend = holt_linear_smoothing(obs, level, trend, alpha=alpha, beta=beta)
HoltStep ==
    /\ smooth.fn = "holt"
    /\ smooth.err = "none"
    /\ smooth.n < MaxObs
    /\ \E obs \in Observations :
          \E r \in {holt_linear_smoothing(obs, smooth.level, smooth.trend,
                                          smooth.alpha, smooth.beta)} :
              smooth' = [smooth EXCEPT
                            !.level = r.level,
                            !.trend = r.trend,
                            !.prev = [level |-> smooth.level, trend |-> smooth.trend],
                            !.first = IF smooth.n = 0 THEN obs ELSE @,
                            !.obs = obs,
                            !.n = @ + 1,
                            !.err = r.err]
    /\ UNCHANGED <<trains, neuron, proxy>>
    /\ UNCHANGED netVars

SmoothNext == ExpStep \/ HoltStep

SmoothSpec == SmoothInit /\ [][SmoothNext]_vars

\* ------------------------------------------------------------ core.math: isi
\* A tensor is its shape and its data: a sequence for one dimension, a
\* sequence of rows for two.  Positions are numbered from 1 in the model and
\* from 0 in torch; time steps and the indices torch returns are kept from 0.
\* NaN is a value of its own, and arithmetic on it gives NaN.

NaN == <<0, 0>>

FSub(a, b) == IF a = NaN \/ b = NaN THEN NaN ELSE RSub(a, b)

RECURSIVE Concat(_)
Concat(rows) == IF rows = <<>> THEN <<>> ELSE Head(rows) \o Concat(Tail(rows))

\* ein.rearrange(x, "t ... -> ... t") and its inverse, on at most two
\* dimensions
rearrange(x) ==
    IF Len(x.shape) = 1 THEN x
    ELSE [shape |-> <<x.shape[2], x.shape[1]>>,
          data |-> [c \in 1 .. x.shape[2] |->
                      [r \in 1 .. x.shape[1] |-> x.data[r][c]]]]

\* torch.nonzero(v) on one dimension of booleans: the positions (from 0) of
\* the entries that are True, ascending
nonzero(v) == SelectSeq([k \in 1 .. Len(v) |-> k - 1], LAMBDA k : v[k + 1])

\* torch.tensor_split(x, indices): x[:i1], x[i1:i2], ..., x[ik:]
tensor_split(x, indices) ==
    LET cuts == <<0>> \o indices \o <<Len(x)>>
    IN  [p \in 1 .. Len(indices) + 1 |-> SubSeq(x, cuts[p] + 1, cuts[p + 1])]

RECURSIVE MaxLen(_)
MaxLen(rows) ==
    IF rows = <<>> THEN 0
    ELSE LET m == MaxLen(Tail(rows))
         IN  IF Len(Head(rows)) > m THEN Len(Head(rows)) ELSE m

\* nn.utils.rnn.pad_sequence(sequences, batch_first=True, padding_value=v)
pad_sequenceMutZero(sequences, v) ==
    [p \in 1 .. Len(sequences) |->
        sequences[p] \o [k \in 1 .. MaxLen(sequences) - Len(sequences[p]) |-> Zero]]

pad_sequence(sequences, v) ==
    [p \in 1 .. Len(sequences) |->
        sequences[p] \o [k \in 1 .. MaxLen(sequences) - Len(sequences[p]) |-> v]]

\* torch.diff(rows, dim=-1): a dimension of size 0 stays of size 0
diffMutKeepsOne(rows) ==
    [p \in 1 .. Len(rows) |->
        IF Len(rows[p]) <= 1 THEN <<NaN>>
        ELSE [k \in 1 .. Len(rows[p]) - 1 |-> FSub(rows[p][k + 1], rows[p][k])]]

diff(rows) ==
    [p \in 1 .. Len(rows) |->
        [k \in 1 .. Len(rows[p]) - 1 |-> FSub(rows[p][k + 1], rows[p][k])]]

\* Tensor.view(*lead, -1) of a matrix given by its rows: the elements in
\* row-major order under the new shape, or the error torch raises when the
\* size of the last dimension cannot be inferred
view(rows, lead) ==
    LET flat == Concat(rows)
        n == IF lead = <<>> THEN 1 ELSE lead[1]
        w == IF n = 0 THEN 0 ELSE Len(flat) \div n
    IN  IF n = 0 \/ Len(flat) % n # 0
        THEN [err |-> "RuntimeError", shape |-> <<>>, data |-> <<>>]
        ELSE IF lead = <<>>
        THEN [err |-> "none", shape |-> <<w>>, data |-> flat]
        ELSE [err |-> "none", shape |-> <<n, w>>,
              data |-> [r \in 1 .. n |-> SubSeq(flat, (r - 1) * w + 1, r * w)]]

\* (nz - 1) * step_time
Unshift(nz, step_time) == [k \in 1 .. Len(nz) |-> RMul(RInt(nz[k] - 1), step_time)]

\* isi(spikes, step_time, time_first)
isiMutNoStepTime(spikes, step_time, time_first) ==
    LET sp == IF time_first THEN rearrange(spikes) ELSE spikes
        rows == IF Len(sp.shape) = 1 THEN <<sp.data>> ELSE sp.data
        padded == [r \in 1 .. Len(rows) |-> <<TRUE>> \o rows[r]]
        nz == Concat([r \in 1 .. Len(padded) |-> nonzero(padded[r])])
        splits == Tail(nonzero([k \in 1 .. Len(nz) |-> nz[k] = 0]))
        pieces == tensor_split(Unshift(nz, One), splits)
        stacked == pad_sequence(pieces, NaN)
        intervals == diff([p \in 1 .. Len(stacked) |-> Tail(stacked[p])])
        v == view(intervals, SubSeq(sp.shape, 1, Len(sp.shape) - 1))
    IN  IF v.err # "none" THEN [err |-> v.err, ret |-> [shape |-> <<>>, data |-> <<>>]]
        ELSE [err |-> "none",
              ret |-> IF time_first THEN rearrange([shape |-> v.shape, data |-> v.data])
                      ELSE [shape |-> v.shape, data |-> v.data]]

isi(spikes, step_time, time_first) ==
    LET sp == IF time_first THEN rearrange(spikes) ELSE spikes
        st == IF step_time = None THEN One ELSE step_time
        rows == IF Len(sp.shape) = 1 THEN <<sp.data>> ELSE sp.data
        padded == [r \in 1 .. Len(rows) |-> <<TRUE>> \o rows[r]]
        nz == Concat([r \in 1 .. Len(padded) |-> nonzero(padded[r])])
        splits == Tail(nonzero([k \in 1 .. Len(nz) |-> nz[k] = 0]))
        pieces == tensor_split(Unshift(nz, st), splits)
        stacked == pad_sequence(pieces, NaN)
        intervals == diff([p \in 1 .. Len(stacked) |-> Tail(stacked[p])])
        v == view(intervals, SubSeq(sp.shape, 1, Len(sp.shape) - 1))
    IN  IF v.err # "none" THEN [err |-> v.err, ret |-> [shape |-> <<>>, data |-> <<>>]]
        ELSE [err |-> "none",
              ret |-> IF time_first THEN rearrange([shape |-> v.shape, data |-> v.data])
                      ELSE [shape |-> v.shape, data |-> v.data]]

\* the spike train with spikes at the steps of S
Train(S) == [t \in 1 .. TrainLen |-> (t - 1) \in S]

\* the steps at which the trains drawn spike: the trains of the scenario
\* (spikes at 2, 5 and 9) and their sub-trains, and trains that spike at the
\* first step, at the last one and at steps in a row
SpikeSets ==
    SUBSET {2, 5, 9} \cup {{0}, {0, 1, 2, 3}, {0, TrainLen - 1}}

\* the tensors handed to isi: one train, or a batch of trains, time last
SpikeTensors ==
    {[shape |-> <<TrainLen>>, data |-> Train(S)] : S \in SpikeSets}
        \cup {[shape |-> <<Batch, TrainLen>>, data |-> [n \in 1 .. Batch |-> Train(f[n])]] :
                  f \in [1 .. Batch -> SpikeSets]}

\* trains: the arguments of the call, and once it returned (done) the tensor
\* returned and the error raised
IsiInit ==
    /\ NetIdle
    /\ smooth = NoCall /\ neuron = NoCall /\ proxy = NoCall
    /\ \E x \in SpikeTensors, step_time \in {None, Two, Half}, time_first \in BOOLEAN :
          trains = [fn |-> "isi",
                    spikes |-> IF time_first THEN rearrange(x) ELSE x,
                    step_time |-> step_time, time_first |-> time_first,
                    done |-> FALSE, err |-> "none",
                    ret |-> [shape |-> <<>>, data |-> <<>>]]

IsiCall ==
    /\ trains.fn = "isi"
    /\ ~trains.done
    /\ \E r \in {isi(trains.spikes, trains.step_time, trains.time_first)} :
          trains' = [trains EXCEPT !.done = TRUE, !.err = r.err, !.ret = r.ret]
    /\ UNCHANGED <<smooth, neuron, proxy>>
    /\ UNCHANGED netVars

IsiNext == IsiCall

IsiSpec == IsiInit /\ [][IsiNext]_vars

\* ------------------------------------------------------------ neuron group
\* The neuron state machine of the specification: a leaky integrate-and-fire
\* group with a fixed reset value.  Per unit: the membrane voltage, the
\* refractory counter in steps and the spike flag of the current step.

RestV == Zero
ResetV == <<-1, 1>>
ThreshV == One

\* dt / tau of the forward Euler step, and the membrane resistance
Leak == Half
Resistance == One

\* forward Euler step of the leaky integration
Integrate(v, current) ==
    RAdd(v, RMul(Leak, RAdd(RSub(RestV, v), RMul(Resistance, current))))

\* step(input_current) on one unit: a refractory unit decrements its counter
\* and holds its voltage; an integrating unit integrates, and where the
\* voltage reaches the threshold it spikes, is reset and enters refractory
\* for the configured period
StepUnitMutIntegrates(u, period, current) ==
    LET v1 == Integrate(u.v, current)
    IN  IF u.c > 0 THEN [v |-> v1, c |-> u.c - 1, spike |-> FALSE]
        ELSE IF RLe(ThreshV, v1) THEN [v |-> ResetV, c |-> period, spike |-> TRUE]
        ELSE [v |-> v1, c |-> 0, spike |-> FALSE]

StepUnit(u, period, current) ==
    LET v1 == Integrate(u.v, current)
    IN  IF u.c > 0 THEN [v |-> u.v, c |-> u.c - 1, spike |-> FALSE]
        ELSE IF RLe(ThreshV, v1) THEN [v |-> ResetV, c |-> period, spike |-> TRUE]
        ELSE [v |-> v1, c |-> 0, spike |-> FALSE]

\* clear() on one unit
ClearUnit == [v |-> RestV, c |-> 0, spike |-> FALSE]

\* the refractory periods, in steps, and the input currents of a step
RefracPeriods == {0, 1, 2}

InputCurrents == [Units -> {Zero, <<3, 1>>}]

\* neuron: the units, the units as they were before the last call (prev),
\* the call and its input current, and the steps made
NeuronInit ==
    /\ NetIdle
    /\ smooth = NoCall /\ trains = NoCall /\ proxy = NoCall
    /\ \E period \in RefracPeriods :
          neuron = [fn |-> "neuron", period |-> period,
                    units |-> [u \in Units |-> ClearUnit],
                    prev |-> [u \in Units |-> ClearUnit],
                    op |-> "none", current |-> ZeroVec, n |-> 0]

NeuronStep ==
    /\ neuron.fn = "neuron"
    /\ neuron.n < MaxTicks
    /\ \E current \in InputCurrents :
          neuron' = [neuron EXCEPT
                        !.units = [u \in Units |->
                                     StepUnit(neuron.units[u], neuron.period, current[u])],
                        !.prev = neuron.units,
                        !.op = "step",
                        !.current = current,
                        !.n = @ + 1]
    /\ UNCHANGED <<smooth, trains, proxy>>
    /\ UNCHANGED netVars

NeuronClear ==
    /\ neuron.fn = "neuron"
    /\ neuron.op = "step"
    /\ neuron' = [neuron EXCEPT
                      !.units = [u \in Units |-> ClearUnit],
                      !.prev = neuron.units,
                      !.op = "clear",
                      !.current = ZeroVec]
    /\ UNCHANGED <<smooth, trains, proxy>>
    /\ UNCHANGED netVars

NeuronNext == NeuronStep \/ NeuronClear

NeuronSpec == NeuronInit /\ [][NeuronNext]_vars

\* ------------------------------------------------------------------ Proxy
\* Python values, tagged: a string of attribute names separated by dots (its
\* names in order; no name is the empty string), None, a tuple, a plain
\* object (the path of attribute names that leads to it from the wrapped
\* root, every name being an attribute of every object) and a Proxy.

Str(names) == [t |-> "str", names |-> names]

PyNone == [t |-> "none"]

Tuple(items) == [t |-> "tuple", items |-> items]

Obj(path) == [t |-> "obj", path |-> path]

\* bool(v)
Truthy(v) ==
    CASE v.t = "str" -> v.names # <<>>
      [] v.t = "none" -> FALSE
      [] v.t = "tuple" -> v.items # <<>>
      [] OTHER -> TRUE

\* rgetattr(obj, attr) with attr split at its dots: reduce(getattr, ...)
rgetattr(obj, names) == Obj(obj.path \o names)

\* Proxy(inner, firstacc, *otheracc): otheracc is the tuple of the
\* positional arguments after the second
Proxy__init__(inner, firstacc, otheracc) ==
    [t |-> "proxy", inner |-> inner, firstacc |-> firstacc,
     otheracc |-> Tuple(otheracc)]

\* Proxy.__getattr__(attr): the value returned or the error raised
Proxy__getattr__(self, attr) ==
    LET names == IF Truthy(self.firstacc) THEN <<attr>> \o self.firstacc.names
                 ELSE <<attr>>
        found == rgetattr(self.inner, names)
    IN  IF Truthy(self.firstacc) /\ self.firstacc.t # "str"
        THEN [err |-> "TypeError", val |-> PyNone]
        ELSE IF Truthy(self.otheracc)
        THEN [err |-> "none",
              val |-> Proxy__init__(found, Head(self.otheracc.items),
                                    <<Tuple(Tail(self.otheracc.items))>>)]
        ELSE [err |-> "none", val |-> found]

\* the accessors a Proxy is built with and the attributes asked of it
FirstAccessors == {PyNone, Str(<<"weight">>), Str(<<"layer", "weight">>)}

OtherAccessors == {PyNone, Str(<<"value">>), Str(<<"updater", "value">>)}

RECURSIVE SeqsUpTo(_, _)
SeqsUpTo(S, n) ==
    IF n = 0 THEN {<<>>}
    ELSE LET shorter == SeqsUpTo(S, n - 1)
         IN  shorter \cup {Append(q, x) : q \in shorter, x \in S}

Attributes == {"linear", "conv"}

\* proxy: the accessors the first Proxy was built with, the attributes asked
\* so far (one per access, each asked of the value the access before it
\* returned), the value the last access returned (the first Proxy before any
\* access) and the error raised
ProxyInit ==
    /\ NetIdle
    /\ smooth = NoCall /\ trains = NoCall /\ neuron = NoCall
    /\ \E first \in FirstAccessors, others \in SeqsUpTo(OtherAccessors, MaxAcc) :
          proxy = [fn |-> "proxy", firstacc |-> first, otheracc |-> others,
                   asked |-> <<>>, err |-> "none",
                   cur |-> Proxy__init__(Obj(<<>>), first, others)]

\* cur = cur.<attr>
GetAttr ==
    /\ proxy.fn = "proxy"
    /\ proxy.err = "none"
    /\ proxy.cur.t = "proxy"
    /\ Len(proxy.asked) < MaxHops
    /\ \E attr \in Attributes :
          \E r \in {Proxy__getattr__(proxy.cur, attr)} :
              proxy' = [proxy EXCEPT
                           !.asked = Append(@, attr),
                           !.err = r.err,
                           !.cur = IF r.err = "none" THEN r.val ELSE @]
    /\ UNCHANGED <<smooth, trains, neuron>>
    /\ UNCHANGED netVars

ProxyNext == GetAttr

ProxySpec == ProxyInit /\ [][ProxyNext]_vars

IsRead == lastop.op = "read"

UsedCurrent(j, i) ==
    IF conn.delayed THEN CurrentAt(syn, i, ReadDelay(conn, j, i)) ELSE Current(syn)[i]

\* x W^T + b for output unit j, the bias added once
Affine(j) ==
    RAdd(SumSet([i \in Units |-> RMul(UsedCurrent(j, i), conn.weight[j][i])], Units),
         IF conn.biased THEN conn.bias[j] ELSE Zero)

\* C12 as claimed: a forward call of a DenseLinear connection returns, for
\* every output unit j, the sum over the input units i of the synaptic current
\* of i (read at the delay of the weight when delayed) times W[j][i], plus the
\* bias b[j] added exactly once, on the delayed and on the undelayed path.
C12_Original ==
    (IsConnStep /\ conn.type = "DenseLinear")
        => /\ err = "none"
           /\ \A j \in Units : out[j] = Affine(j)

\* the synapse with another past for unit j: every recorded observation of
\* the unit replaced
OtherPast(s, j, b) ==
    [s EXCEPT !.spike_.data = [k \in DOMAIN @ |-> [@[k] EXCEPT ![j] = b]],
              !.current_.data = [k \in DOMAIN @ |-> [@[k] EXCEPT ![j] = ToNum(b)]]]

\* C13: a LateralLinear connection has no self-connection.  The output of
\* unit j of a forward call is the output of the same call made with any
\* other input for unit j, on a synapse with any other past for unit j: it
\* does not depend on the current or the delayed input of unit j, whatever
\* the weights and the delays are (also those set by weight_init and
\* delay_init, whose diagonal is not zero), on the delayed and on the
\* undelayed path.
C13_NoSelfConnection ==
    [][(lastop'.op = "connforward" /\ conn.type = "LateralLinear" /\ err' = "none")
          => \A j \in Units : \A v \in {Zero, One, Two}, b \in BOOLEAN :
                ConnForward(conn, OtherPast(syn, j, b),
                            [lastop'.inputs[1] EXCEPT ![j] = v]).ret[j] = out'[j]
      ]_vars

\* the second forward call of a delayed lateral connection whose weights and
\* delays were set by the initializers (the weight of unit 1 on itself is 2,
\* its delay 1): unit 1 spiked in both calls, unit 2 in neither, and the
\* output of unit 1 is 0
C13_Witness ==
    /\ IsConnStep /\ conn.type = "LateralLinear" /\ conn.delayed /\ ~conn.biased
    /\ conn.weight[1][1] = Two /\ conn.delay[1][1] = One
    /\ nsteps = 2
    /\ AtAge(syn.spike_, 1) = [u \in Units |-> u = 1]
    /\ lastop.inputs[1] = [u \in Units |-> IF u = 1 THEN One ELSE Zero]
    /\ out[1] = Zero
    /\ out[2] # Zero

\* alpha * obs + (1 - alpha) * level
Blend(alpha, obs, level) == RAdd(RMul(alpha, obs), RMul(RSub(One, alpha), level))

\* C14: exponential_smoothing threads a level through the observations: the
\* first call (level None) returns the observation itself and raises
\* nothing, every later call returns alpha * obs + (1 - alpha) * level; so
\* with alpha = 1 the level is the latest observation and with alpha = 0 it
\* stays at the first one.
C14_ExponentialRecurrence ==
    (smooth.fn = "exponential" /\ smooth.n >= 1)
        => /\ smooth.err = "none"
           /\ smooth.n = 1 => smooth.level = smooth.obs
           /\ smooth.n > 1
                 => smooth.level = Blend(smooth.alpha, smooth.obs, smooth.prev.level)
           /\ smooth.alpha = One => smooth.level = smooth.obs
           /\ smooth.alpha = Zero => smooth.level = smooth.first

\* the third call with alpha = 1/2 on the observations 2, 0, 1: the level is
\* 1/2 * 1 + 1/2 * (1/2 * 0 + 1/2 * 2) = 1
C14_Witness ==
    /\ smooth.fn = "exponential" /\ smooth.n = 3 /\ smooth.err = "none"
    /\ smooth.alpha = Half
    /\ smooth.first = Two /\ smooth.prev.level = One /\ smooth.obs = One
    /\ smooth.level = One

\* C15 as claimed: holt_linear_smoothing, with its level and trend threaded
\* back in from (None, None), never raises; the first call returns
\* (obs, None); a later call takes a None trend as obs - level and returns
\* s = alpha * obs + (1 - alpha) * (level + trend) and
\* b = beta * (s - level) + (1 - beta) * trend.
C15_Original ==
    (smooth.fn = "holt" /\ smooth.n >= 1)
        => /\ smooth.err = "none"
           /\ smooth.n = 1 => (smooth.level = smooth.obs /\ smooth.trend = None)
           /\ smooth.n > 1
                 => LET level == smooth.prev.level
                        trend == IF smooth.prev.trend = None
                                 THEN RSub(smooth.obs, level) ELSE smooth.prev.trend
                        s == Blend(smooth.alpha, smooth.obs, RAdd(level, trend))
                    IN  /\ smooth.level = s
                        /\ smooth.trend = Blend(smooth.beta, RSub(s, level), trend)

IsiDone == trains.fn = "isi" /\ trains.done

\* the tensor handed to isi and the tensor it returned, time last
TimeLast(x) == IF trains.time_first THEN rearrange(x) ELSE x

\* the trains of the input, and the rows returned for them
TrainRows == LET x == TimeLast(trains.spikes)
             IN  IF Len(x.shape) = 1 THEN <<x.data>> ELSE x.data

RetRows == LET y == TimeLast(trains.ret)
           IN  IF Len(y.shape) = 1 THEN <<y.data>> ELSE y.data

\* the shape of the input without its time dimension
NonTimeDims == LET x == TimeLast(trains.spikes) IN SubSeq(x.shape, 1, Len(x.shape) - 1)

\* the steps at which train n spikes, ascending, and their number
SpikeSteps(n) == nonzero(TrainRows[n])

SpikeCount(n) == Len(SpikeSteps(n))

\* C, the maximum number of spikes amongst the trains
MaxCount == MaxLen([n \in 1 .. Len(TrainRows) |-> SpikeSteps(n)])

StepLength == IF trains.step_time = None THEN One ELSE trains.step_time

\* C16: isi maps each train with spikes at the steps t1 < ... < tk to the
\* differences t2 - t1, ..., tk - t(k-1), in that order, in step units when
\* step_time is None and multiplied by step_time otherwise; the intervals of
\* a train of a batch are those isi returns for that train alone, whatever
\* the other trains are, also when they have no spike.
C16_ConsecutiveIntervals ==
    IsiDone
        => /\ trains.err = "none"
           /\ \A n \in 1 .. Len(TrainRows) :
                 /\ \A i \in 1 .. SpikeCount(n) - 1 :
                       RetRows[n][i] =
                           RMul(RInt(SpikeSteps(n)[i + 1] - SpikeSteps(n)[i]), StepLength)
                 /\ SubSeq(RetRows[n], 1, SpikeCount(n) - 1) =
                       isi([shape |-> <<TrainLen>>, data |-> TrainRows[n]],
                           trains.step_time, FALSE).ret.data

\* the scenario: a train with spikes at the steps 2, 5 and 9, next to a train
\* without spikes, with a step of 2 ms: the intervals are 6 and 8
C16_Witness ==
    /\ IsiDone /\ ~trains.time_first /\ trains.step_time = Two
    /\ Len(TrainRows) = Batch
    /\ SpikeSteps(1) = <<2, 5, 9>>
    /\ SpikeCount(2) = 0
    /\ RetRows[1] = <<RInt(6), RInt(8)>>

IsNeuron == neuron.fn = "neuron"

\* C19: in every reachable state of a neuron group a unit whose refractory
\* counter is greater than 0 is held at the reset value; a step on such a
\* unit decrements its counter, leaves its voltage where it was whatever the
\* input current is, and emits no spike; and a step changes the voltage of a
\* unit or makes it spike only if its counter was 0 before the step.
C19_RefractoryHolds ==
    IsNeuron
        => \A u \in Units :
              /\ neuron.units[u].c > 0 => neuron.units[u].v = ResetV
              /\ (neuron.op = "step" /\ neuron.prev[u].c > 0)
                    => /\ neuron.units[u].c = neuron.prev[u].c - 1
                       /\ neuron.units[u].v = neuron.prev[u].v
                       /\ neuron.units[u].v = ResetV
                       /\ ~neuron.units[u].spike
              /\ (/\ neuron.op = "step"
                  /\ neuron.units[u].v # neuron.prev[u].v \/ neuron.units[u].spike)
                    => neuron.prev[u].c = 0

\* a step with a current above the threshold on a unit that is in the first
\* step of a refractory period of two steps, while the other unit integrates
C19_Witness ==
    /\ IsNeuron /\ neuron.op = "step" /\ neuron.period = 2
    /\ neuron.prev[1].c = 2 /\ neuron.units[1].c = 1
    /\ neuron.current[1] = <<3, 1>>
    /\ neuron.units[1].v = ResetV /\ ~neuron.units[1].spike
    /\ neuron.prev[2].c = 0 /\ neuron.units[2].v # neuron.prev[2].v

IsProxy == proxy.fn = "proxy"

\* the names of an accessor: those of the string, none for None
AccessorNames(a) == IF a.t = "str" THEN a.names ELSE <<>>

\* the accessors in the order they are to be consumed
Accessors == <<proxy.firstacc>> \o proxy.otheracc

\* the object reached from the wrapped root by the first k attribute
\* accesses, each followed by its accessor
RECURSIVE Resolved(_)
Resolved(k) ==
    IF k = 0 THEN <<>>
    ELSE Resolved(k - 1) \o <<proxy.asked[k]>> \o AccessorNames(Accessors[k])

\* C20 as claimed: a Proxy built with a first accessor and n additional
\* accessors resolves in a finite chain.  No access raises; each of the first
\* n accesses returns another Proxy; the access that consumes the last of the
\* n + 1 accessors returns the underlying value, which is not a Proxy; with
\* no additional accessor Proxy(inner, first).attr is inner.attr.first.
C20_Original ==
    IsProxy
        => /\ proxy.err = "none"
           /\ Len(proxy.asked) <= Len(proxy.otheracc) => proxy.cur.t = "proxy"
           /\ Len(proxy.asked) = Len(proxy.otheracc) + 1
                 => proxy.cur = Obj(Resolved(Len(proxy.asked)))

\* ---------------------------------------------------------------- twins

IsTwinConn == lastop.op = "twinforward" /\ conn.type # "none"

IsTwinSyn == lastop.op = "twinforward" /\ conn.type = "none"

\* every delay of the connection is zero
ZeroDelays ==
    IF conn.type = "DirectLinear" THEN \A i \in Units : conn.delay[i] = Zero
    ELSE \A j, i \in Units : conn.delay[j][i] = Zero

C22_BooleanEquivalence ==
    IsTwinSyn
        => \A u \in Units :
              LET v == lastop.inputs[1][u]
              IN  /\ out[u] = RMul(v, Quantum)
                  /\ twin.out[u] = IF v = Zero THEN Zero ELSE Quantum
                  /\ Peek(syn.spike_)[u] <=> v # Zero
                  /\ Peek(twin.syn.spike_) = Peek(syn.spike_)
                  /\ v \in {Zero, One}
                        => /\ out[u] = twin.out[u]
                           /\ Peek(syn.spike_)[u] <=> RMul(v, Quantum) = Quantum
                  /\ v \notin {Zero, One} => out[u] # twin.out[u]

\* a second step, on a boolean input in which unit 2 spikes, after a step on
\* the numeric input, at a step time that is not 1
C22_Witness ==
    /\ IsTwinSyn
    /\ nsteps = 2 /\ syn.dt = Two /\ Cap(syn.current_) >= 2
    /\ AtAge(syn.current_, 1)[1] = RMul(Two, Quantum)
    /\ lastop.inputs[1][1] = Zero /\ lastop.inputs[1][2] = One
    /\ out = twin.out /\ out[2] = Quantum /\ out[1] = Zero
    /\ Peek(syn.spike_)[2] /\ ~Peek(syn.spike_)[1]

\* C22 as stated: a DeltaPlusCurrent step without injected current returns
\* what the DeltaCurrent step on the same input returns, for every input,
\* and the spike it records for a unit is true exactly when the unit's
\* contribution inputs[0] * (spike_q / dt) is spike_q / dt.
C22_Original ==
    IsTwinSyn
        => /\ out = twin.out
           /\ \A u \in Units :
                 Peek(syn.spike_)[u]
                     <=> RMul(lastop.inputs[1][u], Quantum) = Quantum

====
